---- MODULE Spec2Model ----
(***************************************************************************)
(* Model of partial_trueskill/domain.py: the Rating hierarchy              *)
(* (SkillBasedRating, ConstantRating, RateableTotality), the Event value   *)
(* object with its five cached statistics, and the two update formulas.    *)
(*                                                                         *)
(* Python objects live in `heap`, a sequence of records indexed by object  *)
(* identity; a reference is an index.  Floats are fixed-point integers     *)
(* with Scale units per 1.0; math.sqrt is the integer square root and      *)
(* raises on a negative argument; NormalDist.pdf / NormalDist.cdf (library *)
(* functions) are tabulated on a grid of half units of z.                  *)
(***************************************************************************)
EXTENDS Integers, Sequences, FiniteSets, TLC

\* ------------------------------------------------------------------ bounds
MaxCalls == 2      \* update calls made per run
MaxEvents == 1      \* Events the caller constructs per run
MaxCopies == 1      \* copy.copy calls per run

\* ------------------------------------------------------- fixed-point floats
Scale == 1000
SqrtMax == 46340    \* largest root whose square fits the integer range
ZStep == 500        \* grid of the pdf / cdf tables, in Scale units of z

Mul(a, b) == (a * b) \div Scale
Div(a, b) == (a * Scale) \div b
Sqr(a) == Mul(a, a)

RECURSIVE SqrtIter(_, _, _)
SqrtIter(n, lo, hi) ==
    IF lo >= hi THEN lo
    ELSE LET mid == (lo + hi + 1) \div 2
         IN IF mid * mid <= n THEN SqrtIter(n, mid, hi)
                              ELSE SqrtIter(n, lo, mid - 1)

\* math.sqrt raises ValueError("math domain error") on a negative argument
ValueError == -1
math_sqrt(x) == IF x < 0 THEN ValueError ELSE SqrtIter(x * Scale, 0, SqrtMax)

\* statistics.NormalDist().pdf and .cdf, in millionths, tabulated at
\* z = -3.0, -2.5, ..., 3.0, interpolated linearly in between and held at the
\* end values outside
ZMax == 3000
PdfTable == << 4432, 17528, 53991, 129518, 241971, 352065, 398942,
               352065, 241971, 129518, 53991, 17528, 4432 >>
CdfTable == << 1350, 6210, 22750, 66807, 158655, 308538, 500000,
               691462, 841345, 933193, 977250, 993790, 998650 >>
Interpolate(T, z) ==
    LET k == ((z + ZMax) \div ZStep) + 1
        i == IF k < 1 THEN 1 ELSE IF k > Len(T) - 1 THEN Len(T) - 1 ELSE k
        z0 == (i - 1) * ZStep - ZMax
        zc == IF z < -ZMax THEN -ZMax ELSE IF z > ZMax THEN ZMax ELSE z
    IN T[i] + ((T[i + 1] - T[i]) * (zc - z0)) \div ZStep
normal_dist_pdf(z) == Interpolate(PdfTable, z)
normal_dist_cdf(z) == Interpolate(CdfTable, z)

\* ------------------------------------------------------------------- state
VARIABLES
    heap,       \* the Rating objects, indexed by identity
    event,      \* the Event the caller holds (NoEvent before the first one)
    event2,     \* the Event returned by the last copy_with
    last,       \* the last call: operation, target, argument, result
    pre,        \* heap before the last call
    log,        \* update calls made with `event`: << operation, target, raised >>
    atEvent,    \* heap when `event` was constructed
    built,      \* the five statistics computed when `event` was constructed
    copies,     \* pairs [orig, copy] made by copy.copy
    parameters, \* the Parameters object of the rating domain
    nCalls,
    nEvents

vars == << heap, event, event2, last, pre, log, atEvent, built, copies,
           parameters, nCalls, nEvents >>

None == 0           \* Python's None, for won_or_lost and copy_with's arguments

\* ----------------------------------------------------------------- ratings
SkillBasedRating(mean, variance) ==
    [cls |-> "SkillBasedRating", mean |-> mean, variance |-> variance,
     is_set |-> FALSE, name |-> "", ratings |-> << >>]

ConstantRating(is_set, variance, mean) ==
    [cls |-> "ConstantRating", mean |-> mean, variance |-> variance,
     is_set |-> is_set, name |-> "", ratings |-> << >>]

RateableTotality(name, ratings) ==
    [cls |-> "RateableTotality", mean |-> 0, variance |-> 0,
     is_set |-> FALSE, name |-> name, ratings |-> ratings]

Parameters(beta, tau) ==
    [static_performance_spread |-> beta, constant_additional_variance |-> tau]

\* the sum of another property of the children
mean_sums_variance(h, r) ==
    IF h[r].cls = "RateableTotality"
    THEN LET RECURSIVE S(_)
             S(ids) == IF ids = << >> THEN 0
                       ELSE h[Head(ids)].variance + S(Tail(ids))
         IN S(h[r].ratings)
    ELSE h[r].mean

RECURSIVE mean(_, _)
mean(h, r) ==
    IF h[r].cls = "RateableTotality"
    THEN LET RECURSIVE S(_)
             S(ids) == IF ids = << >> THEN 0
                       ELSE mean(h, Head(ids)) + S(Tail(ids))
         IN S(h[r].ratings)
    ELSE h[r].mean

RECURSIVE variance(_, _)
variance(h, r) ==
    IF h[r].cls = "RateableTotality"
    THEN LET RECURSIVE S(_)
             S(ids) == IF ids = << >> THEN 0
                       ELSE variance(h, Head(ids)) + S(Tail(ids))
         IN S(h[r].ratings)
    ELSE h[r].variance

RECURSIVE beta_count(_, _)
beta_count(h, r) ==
    IF h[r].cls = "RateableTotality"
    THEN LET RECURSIVE S(_)
             S(ids) == IF ids = << >> THEN 0
                       ELSE beta_count(h, Head(ids)) + S(Tail(ids))
         IN S(h[r].ratings)
    ELSE IF h[r].cls = "SkillBasedRating" THEN 1 ELSE 0

RECURSIVE sigma_variance_for_std_dev(_, _)
sigma_variance_for_std_dev(h, r) ==
    IF h[r].cls = "RateableTotality"
    THEN LET RECURSIVE S(_)
             S(ids) == IF ids = << >> THEN 0
                       ELSE sigma_variance_for_std_dev(h, Head(ids)) + S(Tail(ids))
         IN S(h[r].ratings)
    ELSE Sqr(variance(h, r))

\* the == generated by @dataclass: same class and equal fields; the list of
\* a totality compares element by element with the same ==
RECURSIVE dataclass_eq(_, _, _)
dataclass_eq(h, a, b) ==
    \/ a = b
    \/ /\ h[a].cls = h[b].cls
       /\ IF h[a].cls = "RateableTotality"
          THEN /\ h[a].name = h[b].name
               /\ Len(h[a].ratings) = Len(h[b].ratings)
               /\ \A i \in 1..Len(h[a].ratings) :
                      dataclass_eq(h, h[a].ratings[i], h[b].ratings[i])
          ELSE /\ h[a].mean = h[b].mean
               /\ h[a].variance = h[b].variance
               /\ h[a].is_set = h[b].is_set

\* ------------------------------------------------------------------- Event
NoParameters == Parameters(None, None)  \* "parameters=None" of copy_with
NoName == "None"                        \* "name=None" of copy_with
NoEvent == [weight |-> None]            \* no Event constructed yet

_delta(h, winner, loser) == mean(h, winner) - mean(h, loser)

_std_dev_of_performances(h, winner, loser, params) ==
    math_sqrt((beta_count(h, winner) + beta_count(h, loser))
                  * Sqr(params.static_performance_spread)
              + sigma_variance_for_std_dev(h, winner)
              + sigma_variance_for_std_dev(h, loser))

_z_factor(d, c) == Div(d, c)

_mean_scale(z) == (normal_dist_pdf(z) * Scale) \div normal_dist_cdf(z)

_variance_scale(v, z) == Mul(v, v + z)

Event(h, weight, winner, loser, params, name) ==
    LET d == _delta(h, winner, loser)
        c == _std_dev_of_performances(h, winner, loser, params)
        z == _z_factor(d, c)
        v == _mean_scale(z)
        w == _variance_scale(v, z)
    IN [weight |-> weight, winner |-> winner, loser |-> loser,
        parameters |-> params, name |-> name,
        delta |-> d, std_dev_of_performances |-> c, z_factor |-> z,
        mean_scale |-> v, variance_scale |-> w]

\* a delta property that reads the ratings again
delta_recomputed(e) ==
    IF e = NoEvent THEN e.weight ELSE _delta(heap, e.winner, e.loser)

delta(e) == e.delta
std_dev_of_performances(e) == e.std_dev_of_performances
z_factor(e) == e.z_factor
mean_scale(e) == e.mean_scale
variance_scale(e) == e.variance_scale

direction_of_weight(h, e, rating) ==
    IF dataclass_eq(h, rating, e.winner) THEN 1 ELSE -1

\* a copy_with that hands winner and loser over in the wrong order
copy_with_swapped(h, e, weight, winner, loser, params, name) ==
    Event(h,
          IF weight = None THEN e.weight ELSE weight,
          IF loser = None THEN e.loser ELSE loser,
          IF winner = None THEN e.winner ELSE winner,
          IF params = NoParameters THEN e.parameters ELSE params,
          IF name = NoName THEN e.name ELSE name)

copy_with(h, e, weight, winner, loser, params, name) ==
    Event(h,
          IF weight = None THEN e.weight ELSE weight,
          IF winner = None THEN e.winner ELSE winner,
          IF loser = None THEN e.loser ELSE loser,
          IF params = NoParameters THEN e.parameters ELSE params,
          IF name = NoName THEN e.name ELSE name)

\* --------------------------------------------------------- update formulas
standard_mean_update(h, rating, e, won_or_lost) ==
    LET wl == IF won_or_lost = None THEN direction_of_weight(h, e, rating)
              ELSE won_or_lost
    IN mean(h, rating)
       + Mul(e.weight * wl,
             Mul(mean_scale(e),
                 Div(Sqr(variance(h, rating)) + Sqr(e.parameters.constant_additional_variance),
                     std_dev_of_performances(e))))

\* the new variance, or ValueError when math.sqrt raises
standard_variance_update(h, rating, e) ==
    LET tau_sqr == Sqr(e.parameters.constant_additional_variance)
        variance_sqr == Sqr(variance(h, rating))
        new_variance_sqr ==
            Mul(variance_sqr + tau_sqr,
                Scale - Mul(IF e.weight < 0 THEN -e.weight ELSE e.weight,
                            Mul(variance_scale(e),
                                Div(variance_sqr + tau_sqr,
                                    Sqr(std_dev_of_performances(e))))))
    IN math_sqrt(new_variance_sqr)

\* update_mean / update_variance: the method of the rating's class.  Each
\* returns the heap the call leaves behind; update_variance also tells
\* whether it raised.
RECURSIVE update_mean(_, _, _, _)
RECURSIVE update_variance(_, _, _)

Done(h) == [heap |-> h, raised |-> FALSE]
Raised(h) == [heap |-> h, raised |-> TRUE]

ConstantRating_update_mean_unlocked(h, r, e, won_or_lost) ==
    [h EXCEPT ![r].mean = standard_mean_update(h, r, e, won_or_lost)]

ConstantRating_update_mean(h, r, e, won_or_lost) ==
    IF h[r].is_set THEN h
    ELSE [h EXCEPT ![r].mean = standard_mean_update(h, r, e, won_or_lost)]

ConstantRating_update_variance(h, r, e) ==
    IF h[r].is_set THEN Done(h)
    ELSE LET v == standard_variance_update(h, r, e)
         IN IF v = ValueError THEN Raised(h)
            ELSE Done([h EXCEPT ![r].variance = v])

SkillBasedRating_update_mean(h, r, e, won_or_lost) ==
    [h EXCEPT ![r].mean = standard_mean_update(h, r, e, won_or_lost)]

SkillBasedRating_update_variance(h, r, e) ==
    LET v == standard_variance_update(h, r, e)
    IN IF v = ValueError THEN Raised(h)
       ELSE Done([h EXCEPT ![r].variance = v])

RateableTotality_update_mean(h, r, e, won_or_lost) ==
    LET wl == direction_of_weight(h, e, r)
        RECURSIVE Loop(_, _)
        Loop(hh, ids) == IF ids = << >> THEN hh
                         ELSE Loop(update_mean(hh, Head(ids), e, wl), Tail(ids))
    IN Loop(h, h[r].ratings)

\* the loop stops at the first child whose update raises
RateableTotality_update_variance(h, r, e) ==
    LET RECURSIVE Loop(_, _)
        Loop(hh, ids) ==
            IF ids = << >> THEN Done(hh)
            ELSE LET res == update_variance(hh, Head(ids), e)
                 IN IF res.raised THEN res ELSE Loop(res.heap, Tail(ids))
    IN Loop(h, h[r].ratings)

update_mean(h, r, e, won_or_lost) ==
    CASE h[r].cls = "RateableTotality" -> RateableTotality_update_mean(h, r, e, won_or_lost)
      [] h[r].cls = "ConstantRating" -> ConstantRating_update_mean(h, r, e, won_or_lost)
      [] h[r].cls = "SkillBasedRating" -> SkillBasedRating_update_mean(h, r, e, won_or_lost)

update_variance(h, r, e) ==
    CASE h[r].cls = "RateableTotality" -> RateableTotality_update_variance(h, r, e)
      [] h[r].cls = "ConstantRating" -> ConstantRating_update_variance(h, r, e)
      [] h[r].cls = "SkillBasedRating" -> SkillBasedRating_update_variance(h, r, e)

\* the variance update first: the mean update then reads the new variance
update_variance_then_mean(h, r, e) ==
    LET res == update_variance(h, r, e)
    IN IF res.raised THEN res ELSE Done(update_mean(res.heap, r, e, None))

update_mean_and_variance(h, r, e) ==
    update_variance(update_mean(h, r, e, None), r, e)

\* -------------------------------------------------------------------- copy
\* copy.copy: RateableTotality.__copy__ for a totality, the default shallow
\* copy for the other classes; returns the heap with the new objects and the
\* identity of the copy
shallow_copy(h, r) == [heap |-> Append(h, h[r]), id |-> Len(h) + 1]

\* a __copy__ whose children are copied without their own __copy__: the copy
\* of a child totality keeps the child's list of ratings
copy_children_shallow(h, r) ==
    IF h[r].cls = "RateableTotality"
    THEN LET RECURSIVE Comp(_, _)
             Comp(hh, ids) ==
                 IF ids = << >> THEN [heap |-> hh, ids |-> << >>]
                 ELSE LET a == shallow_copy(hh, Head(ids))
                          b == Comp(a.heap, Tail(ids))
                      IN [heap |-> b.heap, ids |-> << a.id >> \o b.ids]
             c == Comp(h, h[r].ratings)
         IN [heap |-> Append(c.heap, RateableTotality(h[r].name, c.ids)),
             id |-> Len(c.heap) + 1]
    ELSE shallow_copy(h, r)

RECURSIVE copy_copy(_, _)
copy_copy(h, r) ==
    IF h[r].cls = "RateableTotality"
    THEN LET RECURSIVE Comp(_, _)
             Comp(hh, ids) ==
                 IF ids = << >> THEN [heap |-> hh, ids |-> << >>]
                 ELSE LET a == copy_copy(hh, Head(ids))
                          b == Comp(a.heap, Tail(ids))
                      IN [heap |-> b.heap, ids |-> << a.id >> \o b.ids]
             c == Comp(h, h[r].ratings)
         IN [heap |-> Append(c.heap, RateableTotality(h[r].name, c.ids)),
             id |-> Len(c.heap) + 1]
    ELSE shallow_copy(h, r)

\* the ratings contained in r, r included
RECURSIVE Contained(_, _)
Contained(h, r) ==
    {r} \cup UNION { Contained(h, h[r].ratings[i]) : i \in 1..Len(h[r].ratings) }

Roots(h) ==
    { r \in DOMAIN h :
        \A t \in DOMAIN h : \A i \in 1..Len(h[t].ratings) : h[t].ratings[i] # r }

\* ------------------------------------------------------------------ inputs
WeightSet == {500, 1000}
DirectionSet == {1, -1, None}

\* a rating domain: its Parameters and the variance its ratings start with
DomainSet == { [parameters |-> Parameters(4167, 83), variance |-> 8333],
               [parameters |-> Parameters(1000, 4000), variance |-> 1000] }

Stats(e) == << delta(e), std_dev_of_performances(e), z_factor(e),
               mean_scale(e), variance_scale(e) >>

Call(op, target, raised) == [op |-> op, target |-> target, raised |-> raised]

\* two single players with the same rating, and a team of a player and a
\* nested totality holding a ConstantRating
Ratings(variance0, is_set) ==
    << SkillBasedRating(25000, variance0),
       SkillBasedRating(25000, variance0),
       SkillBasedRating(18000, variance0),
       ConstantRating(is_set, 3000, 10000),
       RateableTotality("sub", << 4 >>),
       RateableTotality("team", << 3, 5 >>) >>

\* the ratings and the Parameters are constructed, no Event yet
Init ==
    /\ \E d \in DomainSet, s \in BOOLEAN :
          /\ heap = Ratings(d.variance, s)
          /\ parameters = d.parameters
    /\ event = NoEvent
    /\ event2 = NoEvent
    /\ last = Call("init", None, FALSE)
    /\ pre = heap
    /\ log = << >>
    /\ atEvent = heap
    /\ built = << >>
    /\ copies = {}
    /\ nCalls = 0
    /\ nEvents = 0

\* ----------------------------------------------------------------- actions
\* Event(weight, winner, loser, parameters) on two different ratings that
\* are in no totality.  The construction raises ZeroDivisionError, and yields
\* no Event, when the spread is zero; the callers of the model pair
\* opponents whose z-factor the tables cover.
InTables(e) == -ZMax <= z_factor(e) /\ z_factor(e) <= ZMax

NewEvent(weight, winner, loser) ==
    /\ nEvents < MaxEvents
    /\ winner # loser
    /\ _std_dev_of_performances(heap, winner, loser, parameters) # 0
    /\ InTables(Event(heap, weight, winner, loser, parameters, ""))
    /\ event' = Event(heap, weight, winner, loser, parameters, "")
    /\ built' = Stats(event')
    /\ atEvent' = heap
    /\ log' = << >>
    /\ event2' = NoEvent
    /\ last' = Call("Event", winner, FALSE)
    /\ pre' = heap
    /\ nEvents' = nEvents + 1
    /\ UNCHANGED << heap, copies, parameters, nCalls >>

Returned(op, r, res) ==
    /\ heap' = res.heap
    /\ pre' = heap
    /\ last' = Call(op, r, res.raised)
    /\ log' = Append(log, << op, r, res.raised >>)
    /\ event2' = NoEvent
    /\ nCalls' = nCalls + 1
    /\ UNCHANGED << event, atEvent, built, copies, parameters, nEvents >>

UpdateMeanAndVariance(r) ==
    /\ event # NoEvent
    /\ nCalls < MaxCalls
    /\ Returned("update_mean_and_variance", r,
                update_mean_and_variance(heap, r, event))

UpdateMean(r, won_or_lost) ==
    /\ event # NoEvent
    /\ nCalls < MaxCalls
    /\ Returned("update_mean", r,
                Done(update_mean(heap, r, event, won_or_lost)))

UpdateVariance(r) ==
    /\ event # NoEvent
    /\ nCalls < MaxCalls
    /\ Returned("update_variance", r, update_variance(heap, r, event))

CopyRating(r) ==
    /\ Cardinality(copies) < MaxCopies
    /\ LET c == copy_copy(heap, r)
       IN /\ heap' = c.heap
          /\ copies' = copies \cup { [orig |-> r, copy |-> c.id] }
          /\ last' = Call("copy", r, FALSE)
    /\ pre' = heap
    /\ event2' = NoEvent
    /\ UNCHANGED << event, log, atEvent, built, parameters, nCalls, nEvents >>

CopyWith(weight) ==
    /\ event # NoEvent
    /\ event2' = copy_with(heap, event, weight, None, None, NoParameters, NoName)
    /\ last' = Call("copy_with", None, FALSE)
    /\ pre' = heap
    /\ UNCHANGED << heap, event, log, atEvent, built, copies, parameters,
                    nCalls, nEvents >>

Construct == \E w \in WeightSet : \E a, b \in Roots(heap) : NewEvent(w, a, b)
Update == \E r \in DOMAIN heap : UpdateMeanAndVariance(r)
UpdateParts ==
    \/ \E r \in DOMAIN heap : \E d \in DirectionSet : UpdateMean(r, d)
    \/ \E r \in DOMAIN heap : UpdateVariance(r)
Totalities(h) == { r \in DOMAIN h : h[r].cls = "RateableTotality" }
Copy == \E r \in Totalities(heap) : CopyRating(r)
Rebuild == \E w \in WeightSet \cup {None} : CopyWith(w)

\* Three specifications, one per group of operations: events and whole
\* updates (Spec), the separate update_mean / update_variance calls
\* (SpecParts), copies of totalities (SpecCopy).
Next == Construct \/ Update \/ Rebuild
Spec == Init /\ [][Next]_vars

\* the ratings, the Parameters and one Event are constructed
InitEvent ==
    /\ \E d \in DomainSet, s \in BOOLEAN :
          /\ heap = Ratings(d.variance, s)
          /\ parameters = d.parameters
    /\ \E w \in WeightSet : \E a, b \in Roots(heap) :
          /\ a # b
          /\ _std_dev_of_performances(heap, a, b, parameters) # 0
          /\ event = Event(heap, w, a, b, parameters, "")
          /\ InTables(event)
          /\ last = Call("Event", a, FALSE)
    /\ built = Stats(event)
    /\ event2 = NoEvent
    /\ pre = heap
    /\ log = << >>
    /\ atEvent = heap
    /\ copies = {}
    /\ nCalls = 0
    /\ nEvents = 1

NextParts == Update \/ UpdateParts
SpecParts == InitEvent /\ [][NextParts]_vars

NextCopy == Copy \/ Update
SpecCopy == InitEvent /\ [][NextCopy]_vars

\* ------------------------------------------------------------------ claims
UMV == "update_mean_and_variance"
UpdateOps == { UMV, "update_mean", "update_variance" }
IsTotality(h, r) == h[r].cls = "RateableTotality"
Leaves(h, r) == { l \in Contained(h, r) : ~IsTotality(h, l) }
Frozen(h, r) == h[r].cls = "ConstantRating" /\ h[r].is_set

\* C1: when winner and loser are two distinct SkillBasedRatings with positive
\* variance and 0 < weight <= 1, and update_mean_and_variance(event) has been
\* called exactly once on each, in either order, the winner's mean is above
\* and the loser's mean is below its value at the construction of the event.
C1_WinnerUpLoserDown ==
    ( /\ event # NoEvent
      /\ atEvent[event.winner].cls = "SkillBasedRating"
      /\ atEvent[event.loser].cls = "SkillBasedRating"
      /\ event.winner # event.loser
      /\ atEvent[event.winner].variance > 0
      /\ atEvent[event.loser].variance > 0
      /\ 0 < event.weight /\ event.weight <= Scale
      /\ log \in { << << UMV, event.winner, FALSE >>, << UMV, event.loser, FALSE >> >>,
                   << << UMV, event.loser, FALSE >>, << UMV, event.winner, FALSE >> >> } )
    => /\ mean(heap, event.winner) > mean(atEvent, event.winner)
       /\ mean(heap, event.loser) < mean(atEvent, event.loser)

\* C2: the mean and the variance of a ConstantRating with is_set = true are
\* what they were before the calls, whatever update calls were made on it or
\* on a totality containing it.
C2_FrozenConstant ==
    \A r \in DOMAIN atEvent :
        Frozen(atEvent, r) =>
            /\ heap[r].mean = atEvent[r].mean
            /\ heap[r].variance = atEvent[r].variance
            /\ heap[r].is_set

C2_Witness ==
    /\ Frozen(heap, 4)
    /\ { << "update_mean", 4, FALSE >>, << UMV, 6, FALSE >> }
           \subseteq { log[i] : i \in DOMAIN log }
    /\ heap[3] # atEvent[3]

\* C3: direction_of_weight(rating) is +1 exactly when rating is the very
\* object stored as the event's winner, and -1 for every other rating.
C3_DirectionByIdentity ==
    event # NoEvent =>
        \A r \in DOMAIN heap :
            (direction_of_weight(heap, event, r) = 1) <=> (r = event.winner)

\* C4: the five statistics read from the event are the values computed at
\* its construction, whatever updates changed its winner and loser since.
C4_StatsFixed ==
    event # NoEvent => Stats(event) = built

C4_Witness ==
    /\ event # NoEvent
    /\ \E i \in DOMAIN log : log[i][1] = "update_mean"
    /\ \E i \in DOMAIN log : log[i][1] = "update_variance"
    /\ _delta(heap, event.winner, event.loser) # delta(event)
    /\ _std_dev_of_performances(heap, event.winner, event.loser, event.parameters)
           # std_dev_of_performances(event)

\* C5: when update_mean_and_variance(event) raises, the rating it was called
\* on and every rating it contains are as they were before the call.
C5_NoPartialUpdate ==
    (last.op = UMV /\ last.raised) =>
        \A r \in Contained(pre, last.target) : heap[r] = pre[r]

\* C6 as claimed: at any point after the construction of e,
\* e.copy_with(weight=e.weight) has the five statistics of e.
C6_CopyWithSameStats ==
    (last.op = "copy_with" /\ event2.weight = event.weight) =>
        Stats(event2) = Stats(event)

\* what the Event reads of a rating when it is constructed
Reading(h, r) == << mean(h, r), beta_count(h, r), sigma_variance_for_std_dev(h, r) >>
SameReadings ==
    /\ Reading(heap, event.winner) = Reading(atEvent, event.winner)
    /\ Reading(heap, event.loser) = Reading(atEvent, event.loser)

\* C6 as amended: e.copy_with(weight=e.weight) has the five statistics of e
\* provided the mean, beta_count and sigma_variance_for_std_dev() of e's
\* winner and loser are what they were when e was constructed.
C6_CopyWithSameStatsUnchanged ==
    (last.op = "copy_with" /\ event2.weight = event.weight /\ SameReadings) =>
        Stats(event2) = Stats(event)

C6_Witness ==
    /\ last.op = "copy_with"
    /\ event2.weight = event.weight
    /\ SameReadings
    /\ heap # atEvent
    /\ delta(event) # 0

\* C7: the copy of a totality shares no rating with it at any depth: an
\* update of the copy, or of a rating the copy contains, leaves the original
\* and every rating the original contains as they were.
C7_CopyIsDeep ==
    \A c \in copies :
        /\ Contained(heap, c.copy) \cap Contained(heap, c.orig) = {}
        /\ (last.op \in UpdateOps /\ last.target \in Contained(heap, c.copy)) =>
               \A r \in Contained(heap, c.orig) : heap[r] = pre[r]

C7_Witness ==
    \E c \in copies :
        /\ c.orig = 6
        /\ last.op = UMV
        /\ last.target = c.copy
        /\ \A l \in Leaves(heap, c.copy) : heap[l] # pre[l]

\* C8: the mean, variance and beta_count of a totality are the sums of the
\* current means, variances and beta_counts of its children.
SumOver(F(_), ids) ==
    LET RECURSIVE S(_)
        S(q) == IF q = << >> THEN 0 ELSE F(Head(q)) + S(Tail(q))
    IN S(ids)

C8_LiveSums ==
    \A t \in DOMAIN heap :
        IsTotality(heap, t) =>
            LET M(c) == IF IsTotality(heap, c) THEN mean(heap, c) ELSE heap[c].mean
                V(c) == IF IsTotality(heap, c) THEN variance(heap, c) ELSE heap[c].variance
                B(c) == IF IsTotality(heap, c) THEN beta_count(heap, c)
                        ELSE IF heap[c].cls = "SkillBasedRating" THEN 1 ELSE 0
            IN /\ mean(heap, t) = SumOver(M, heap[t].ratings)
               /\ variance(heap, t) = SumOver(V, heap[t].ratings)
               /\ beta_count(heap, t) = SumOver(B, heap[t].ratings)

C8_Witness ==
    /\ heap[3] # atEvent[3]
    /\ heap[4] # atEvent[4]
    /\ event # NoEvent
    /\ mean(heap, 6) # mean(atEvent, 6)
    /\ variance(heap, 6) # variance(atEvent, 6)
    /\ mean(heap, 6) = heap[3].mean + heap[4].mean

\* C9: update_mean_and_variance on a totality T updates the mean of every
\* rating T contains, nested ones included, with the one direction
\* direction_of_weight(T); when T is the winner no leaf's mean goes down.
C9_OneDirection ==
    (last.op = UMV /\ IsTotality(pre, last.target)) =>
        LET T == last.target
            d == direction_of_weight(pre, event, T)
        IN \A l \in Leaves(pre, T) :
               ~Frozen(pre, l) =>
                   /\ heap[l].mean = standard_mean_update(pre, l, event, d)
                   /\ (T = event.winner => heap[l].mean >= pre[l].mean)

\* C10: update_mean_and_variance(event) leaves mean =
\* standard_mean_update(r_old, event, direction) and variance =
\* standard_variance_update(r_old, event), r_old being the rating before the
\* call: directly on a SkillBasedRating or unlocked ConstantRating with the
\* direction of the rating itself, on the leaves of a totality with the
\* direction handed down to them.
C10_BothFromOldState ==
    (last.op = UMV) =>
        LET T == last.target
        IN \A l \in Leaves(pre, T) :
               ~Frozen(pre, l) =>
                   /\ IF l = T
                      THEN heap[l].mean = standard_mean_update(pre, l, event, None)
                      ELSE \E d \in {1, -1} :
                               heap[l].mean = standard_mean_update(pre, l, event, d)
                   /\ ~last.raised =>
                          heap[l].variance = standard_variance_update(pre, l, event)

C10_Witness ==
    /\ last.op = UMV
    /\ last.target = 6
    /\ ~last.raised
    /\ ~Frozen(pre, 4)
    /\ \A l \in {3, 4} : heap[l].mean # pre[l].mean /\ heap[l].variance # pre[l].variance
    /\ \E i \in DOMAIN log : log[i] = << UMV, 1, FALSE >>

====
